---- MODULE Spec2Model ----
(***************************************************************************)
(* Model of withings_data_collector/get_auth_code.py: the OAuth2           *)
(* authorization-code flow with a local redirect listener                  *)
(* (get_authorization_tokens, obtain_authorization_code_via_browser,       *)
(* OAuthCallbackHandler.do_GET, exchange_code) and the refresh flow        *)
(* (refresh_authorization_tokens), together with the token store           *)
(* (save_tokens / load_refresh_token).                                     *)
(*                                                                         *)
(* Two threads are modelled for the authorization flow: the calling thread *)
(* (variable pc) and the thread running socketserver's serve_forever       *)
(* (variable srv).  socketserver.TCPServer handles one connection at a     *)
(* time on the serve thread.                                               *)
(***************************************************************************)
EXTENDS Integers, Sequences, FiniteSets, TLC

\* ------------------------------------------------------------------ bounds
MaxReqs      == 2   \* inbound connections the environment opens during one flow
MaxScopeLen  == 3   \* length of the scope string passed by the caller

\* --------------------------------------------------------- python values
\* Python values that can be None / str / int / other are tagged records.
VNone     == [k |-> "none", n |-> 0, s |-> ""]
VInt(i)   == [k |-> "int",  n |-> i, s |-> ""]
VStr(t)   == [k |-> "str",  n |-> 0, s |-> t]
Absent    == [k |-> "absent", n |-> 0, s |-> ""]   \* key not in a dict

\* dict.get(key): an absent key reads as None
Get(v)    == IF v = Absent THEN VNone ELSE v
\* Python truthiness of a value
Truthy(v) == CASE v.k = "none"   -> FALSE
               [] v.k = "absent" -> FALSE
               [] v.k = "int"    -> v.n # 0
               [] OTHER          -> v.s # ""

\* ------------------------------------------------------- flow constants
ExpectedPath  == "/callback"    \* path of WITHINGS_REDIRECT_URI
ExpectedState == "S-good"       \* secrets.token_urlsafe(32) of this flow
NoParam       == "<absent>"     \* query parameter not present in the URL
PyNone        == "<None>"       \* Python None held in a str | None slot

Paths   == {ExpectedPath, "/other"}
Codes   == {NoParam, "", "c1", "c2"}
States  == {NoParam, ExpectedState, "S-bad"}
Requests == [path : Paths, code : Codes, state : States]
NoReq   == [path |-> "", code |-> NoParam, state |-> NoParam]

\* urllib.parse.parse_qs(query).get(name, [None])[0]: parse_qs drops
\* parameters with a blank value, so both a missing and an empty parameter
\* read as None.
ParseQs(p) == IF p = NoParam \/ p = "" THEN PyNone ELSE p

\* do_GET line 165: parsed.path != expected_path
PathMatches_any(req) == TRUE
PathMatches(req) == req.path = ExpectedPath

\* do_GET line 175: `if not code`
HasCode_any(c) == TRUE
HasCode(c) == c # PyNone /\ c # ""

\* -------------------------------------------------------------- scopes
ScopeChars    == {"i", "x", ","}         \* characters of the caller's scope string
AllowedScopes == {<<"i">>, <<"m">>}     \* oauth['allowed_scopes']
NoScopes      == <<"<None>">>           \* the caller passed scopes=None
SeqsUpTo(S, n) == UNION {[1..k -> S] : k \in 0..n}
ScopeInputs   == {NoScopes} \cup SeqsUpTo(ScopeChars, MaxScopeLen)
DefaultScopes == <<"i", ",", "m">>      \* oauth['default_scopes']

\* str.split(','): a list of the (possibly empty) pieces between commas
RECURSIVE SplitFrom(_, _, _)
SplitFrom(s, i, piece) ==
    IF i > Len(s) THEN <<piece>>
    ELSE IF s[i] = "," THEN <<piece>> \o SplitFrom(s, i + 1, <<>>)
    ELSE SplitFrom(s, i + 1, Append(piece, s[i]))
Split(s) == SplitFrom(s, 1, <<>>)

\* ','.join(list)
RECURSIVE Join(_)
Join(l) == IF Len(l) = 0 THEN <<>>
           ELSE IF Len(l) = 1 THEN l[1]
           ELSE l[1] \o <<",">> \o Join(Tail(l))

\* line 313: `scope not in oauth['allowed_scopes']`
ScopeAllowed_any(scope) == TRUE
ScopeAllowed(scope) == scope \in AllowedScopes

\* lines 311-314: the first entry that is not allowed, 0 when all are
RECURSIVE FirstInvalidFrom(_, _)
FirstInvalidFrom(l, i) ==
    IF i > Len(l) THEN 0
    ELSE IF ~ScopeAllowed(l[i]) THEN i
    ELSE FirstInvalidFrom(l, i + 1)
FirstInvalid(l) == FirstInvalidFrom(l, 1)

\* -------------------------------------------------------------- outcome
\* `text`: the token values the exception's message spells out in full
NoText == [access_token |-> Absent, refresh_token |-> Absent]
Outcome(kind, msg) == [kind |-> kind, msg |-> msg, wait |-> VNone,
                       access |-> VNone, refresh |-> VNone,
                       userid |-> VNone, expires |-> VNone, text |-> NoText]
Running == Outcome("running", "")

VARIABLES
    pc,           \* position of the calling thread
    op,           \* "none" | "auth" | "refresh": the entry point that was called
    scopes,       \* local `scopes` of get_authorization_tokens
    store,        \* .env: [access, refresh], "" when the key is unset
    srv,          \* position of the serve_forever thread
    cur,          \* request being handled by do_GET
    curCode,      \* local `code` of do_GET
    curState,     \* local `state` of do_GET
    result,       \* CallbackResult [code, state]
    event,        \* threading.Event flag
    shutdownReq,  \* BaseServer.__shutdown_request
    isShutDown,   \* BaseServer.__is_shut_down
    sockOpen,     \* the listening socket is bound and open
    joined,       \* server_thread.join() has returned
    nreq,         \* connections accepted so far
    lastReply,    \* [req, status] of the last response written by do_GET
    waited,       \* "no" | "signal" | "timeout": how event.wait(timeout) ended
    code,         \* value returned by obtain_authorization_code_via_browser
    resp,         \* the token endpoint's answer to the POST
    tokens,       \* (access_token, refresh_token, userid, expires_in) parsed
    outcome,      \* how the entry point ended
    \* observation of the run
    everBound,    \* a listening socket was bound
    browserCalls, \* calls of webbrowser.open
    browserOk,    \* "none" | "opened" | "failed": what webbrowser.open returned
    posts,        \* POSTs sent to the token endpoint
    saves,        \* the calls of save_tokens, in order
    writes,       \* assignments to result.code
    firstCode,    \* first request whose code do_GET recorded
    capturedBad,  \* do_GET recorded a request whose state is not the expected one
    capturedGood, \* do_GET recorded a request whose state is the expected one
    store0,       \* .env as it was before the call
    \* a second invocation of the flow in the same process, on the same port
    pc2,          \* position of the second invocation's calling thread
    outcome2,     \* how the second invocation ended
    sock2Open,    \* the second invocation's listening socket is bound and open
    \* get_data.py: the caller of refresh_authorization_tokens
    gpc,          \* position of the get_data.py function that was called
    gop,          \* "none" | "get_access_token" | "measurements" | "activity"
    gargs,        \* its arguments [refresh, save_path, sqlite_db, dates]
    gtoken,       \* the access token _load_access_token returned
    gresp,        \* the API's answer to requests.get
    gout,         \* how the get_data.py function ended
    jsonFile,     \* content of the file at save_path, NoResp while it is not written
    sqliteRows    \* rows (endpoint, payload) inserted into withings_raw

vars == <<pc, op, scopes, store, srv, cur, curCode, curState, result, event,
          shutdownReq, isShutDown, sockOpen, joined, nreq, lastReply, waited,
          code, resp, tokens, outcome, everBound, browserCalls, browserOk, posts,
          saves,
          writes, firstCode, capturedBad, capturedGood, store0,
          pc2, outcome2, sock2Open,
          gpc, gop, gargs, gtoken, gresp, gout, jsonFile, sqliteRows>>

\* what the serve thread owns
listenVars == <<srv, cur, curCode, curState, result, event, isShutDown, nreq,
                lastReply, writes, firstCode, capturedBad, capturedGood>>
\* what only the token exchange touches
tokenVars  == <<store, store0, resp, tokens, posts, saves>>
\* the listener as the calling thread drives it
serverVars == <<shutdownReq, sockOpen, joined, everBound, browserCalls,
                browserOk, waited>>

\* what only the second invocation touches
flow2Vars  == <<pc2, outcome2, sock2Open>>

\* what only the functions of get_data.py touch
dataVars   == <<gpc, gop, gargs, gtoken, gresp, gout, jsonFile, sqliteRows>>

\* .env before the call: no tokens yet, or the tokens of an earlier flow
Stores   == {[access |-> VNone, refresh |-> VNone],
             [access |-> VStr("A0"), refresh |-> VStr("R0")]}
NoTokens == [access |-> VNone, refresh |-> VNone, userid |-> VNone, expires |-> VNone]

\* ------------------------------------------- token endpoint answers
\* The `body` member of the JSON envelope: missing ("absent"), present but
\* not an object ("other"), or an object ("dict") with some of its keys.
Body(kind, at, rt, uid, exp, ws) ==
    [kind |-> kind, access_token |-> at, refresh_token |-> rt, userid |-> uid,
     expires_in |-> exp, wait_seconds |-> ws]
NoBody    == Body("absent", Absent, Absent, Absent, Absent, Absent)
OtherBody == Body("other", Absent, Absent, Absent, Absent, Absent)
EmptyBody == Body("dict", Absent, Absent, Absent, Absent, Absent)
WaitBody  == Body("dict", Absent, Absent, Absent, Absent, VInt(30))
FullBody  == Body("dict", VStr("A1"), VStr("R1"), VStr("U1"), VInt(7200), Absent)
TokenBodies ==
    {Body("dict", a, r, u, e, Absent) :
        a \in {Absent, VStr("A1")}, r \in {Absent, VStr("R1")},
        u \in {Absent, VStr("U1")}, e \in {Absent, VInt(7200), VStr("soon")}}

\* http: "ok" (2xx), "error" (non-2xx), "timeout" (no answer in time);
\* json: the 2xx payload is an object ("dict"), another JSON value ("list")
\* or not JSON ("invalid").
Answer(http, json, status, body) ==
    [http |-> http, json |-> json, status |-> status, body |-> body]
NoResp == Answer("none", "none", Absent, NoBody)
Responses ==
    {Answer("ok", "dict", VInt(0), b) : b \in TokenBodies \cup {NoBody, OtherBody}}
    \cup {Answer("ok", "dict", VInt(601), b) : b \in {NoBody, OtherBody, EmptyBody, WaitBody}}
    \cup {Answer("ok", "dict", st, b) : st \in {VInt(503), Absent}, b \in {NoBody, FullBody}}
    \cup {Answer("error", "none", Absent, NoBody), Answer("timeout", "none", Absent, NoBody),
          Answer("ok", "invalid", Absent, NoBody), Answer("ok", "list", Absent, NoBody)}

\* ------------------------------------------------- get_data.py values
\* how a function of get_data.py ended: an exception (kind), or "returned"
\* with the access token (get_access_token) or the envelope (fetch_and_save_*)
GOutcome(kind, token, data) == [kind |-> kind, token |-> token, data |-> data]
GRunning == GOutcome("running", VNone, NoResp)

\* refresh_token / save_path / sqlite_db as given (True) or left at their
\* defaults; dates: get_activity has lastupdate or both dates
Args(refresh, save_path, sqlite_db, dates) ==
    [refresh |-> refresh, save_path |-> save_path, sqlite_db |-> sqlite_db,
     dates |-> dates]
NoArgs == Args(FALSE, FALSE, FALSE, TRUE)

Init ==
    /\ pc = "idle"
    /\ op = "none"
    /\ scopes = NoScopes
    /\ store \in Stores
    /\ srv = "none"
    /\ cur = NoReq
    /\ curCode = PyNone
    /\ curState = PyNone
    /\ result = [code |-> PyNone, state |-> PyNone]
    /\ event = FALSE
    /\ shutdownReq = FALSE
    /\ isShutDown = FALSE
    /\ sockOpen = FALSE
    /\ joined = FALSE
    /\ nreq = 0
    /\ lastReply = [req |-> NoReq, status |-> 0]
    /\ waited = "no"
    /\ code = PyNone
    /\ resp = NoResp
    /\ tokens = NoTokens
    /\ outcome = Running
    /\ everBound = FALSE
    /\ browserCalls = 0
    /\ browserOk = "none"
    /\ posts = 0
    /\ saves = <<>>
    /\ writes = 0
    /\ firstCode = NoReq
    /\ capturedBad = FALSE
    /\ capturedGood = FALSE
    /\ store0 = store
    /\ pc2 = "idle"
    /\ outcome2 = Running
    /\ sock2Open = FALSE
    /\ gpc = "idle"
    /\ gop = "none"
    /\ gargs = NoArgs
    /\ gtoken = VNone
    /\ gresp = NoResp
    /\ gout = GRunning
    /\ jsonFile = NoResp
    /\ sqliteRows = <<>>

\* the entry point raises: control returns to the caller with an exception
Raise(kind, msg) ==
    /\ pc' = "done"
    /\ outcome' = Outcome(kind, msg)

\* the calling thread moves on to position p
Goto(p) ==
    /\ pc' = p
    /\ outcome' = outcome

\* ===================================================== the serve thread
\* socketserver.BaseServer.serve_forever: the loop finds the shutdown flag
\* clear and a connection ready, accepts it and runs the handler on it.
serve_accept(r) ==
    /\ srv = "serving"
    /\ ~shutdownReq
    /\ sockOpen
    /\ nreq < MaxReqs
    /\ srv' = "do_GET"
    /\ cur' = r
    /\ nreq' = nreq + 1
    /\ UNCHANGED <<curCode, curState, result, event, isShutDown, lastReply,
                   writes, firstCode, capturedBad, capturedGood>>
    /\ UNCHANGED <<pc, op, scopes, code, outcome, serverVars, tokenVars>>
    /\ UNCHANGED <<flow2Vars, dataVars>>

\* serve_forever finds the shutdown flag set: it leaves the loop, and its
\* finally clause clears the flag and sets __is_shut_down; the thread ends.
serve_exit ==
    /\ srv = "serving"
    /\ shutdownReq
    /\ srv' = "exited"
    /\ shutdownReq' = FALSE
    /\ isShutDown' = TRUE
    /\ UNCHANGED <<cur, curCode, curState, result, event, nreq, lastReply,
                   writes, firstCode, capturedBad, capturedGood>>
    /\ UNCHANGED <<pc, op, scopes, code, outcome, sockOpen, joined, everBound,
                   browserCalls, browserOk, waited, tokenVars>>
    /\ UNCHANGED <<flow2Vars, dataVars>>

\* the handler writes its response and returns to the serve loop
Reply(status) ==
    /\ lastReply' = [req |-> cur, status |-> status]
    /\ srv' = "serving"
    /\ cur' = NoReq
    /\ curCode' = PyNone
    /\ curState' = PyNone

\* do_GET lines 164-179: the path check, parse_qs, the missing-code check
do_GET_dispatch ==
    /\ srv = "do_GET"
    /\ IF ~PathMatches(cur)
         THEN Reply(404)
         ELSE IF ~HasCode(ParseQs(cur.code))
           THEN Reply(400)
           ELSE /\ srv' = "store_code"
                /\ curCode' = ParseQs(cur.code)
                /\ curState' = ParseQs(cur.state)
                /\ UNCHANGED <<cur, lastReply>>
    /\ UNCHANGED <<result, event, isShutDown, nreq, writes, firstCode,
                   capturedBad, capturedGood>>
    /\ UNCHANGED <<pc, op, scopes, code, outcome, serverVars, tokenVars>>
    /\ UNCHANGED <<flow2Vars, dataVars>>

\* do_GET line 180: result.code = code
do_GET_store_code ==
    /\ srv = "store_code"
    /\ result' = [result EXCEPT !.code = curCode]
    /\ writes' = writes + 1
    /\ firstCode' = IF firstCode = NoReq THEN cur ELSE firstCode
    /\ srv' = "store_state"
    /\ UNCHANGED <<cur, curCode, curState, event, isShutDown, nreq, lastReply,
                   capturedBad, capturedGood>>
    /\ UNCHANGED <<pc, op, scopes, code, outcome, serverVars, tokenVars>>
    /\ UNCHANGED <<flow2Vars, dataVars>>

\* do_GET line 181: result.state = state
do_GET_store_state_skipped ==
    /\ srv = "store_state"
    /\ srv' = "set_event"
    /\ UNCHANGED <<cur, curCode, curState, result, event, isShutDown, nreq,
                   lastReply, writes, firstCode, capturedBad, capturedGood>>
    /\ UNCHANGED <<pc, op, scopes, code, outcome, serverVars, tokenVars>>
    /\ UNCHANGED <<flow2Vars, dataVars>>
do_GET_store_state ==
    /\ srv = "store_state"
    /\ result' = [result EXCEPT !.state = curState]
    /\ capturedBad' = (capturedBad \/ curState # ExpectedState)
    /\ capturedGood' = (capturedGood \/ curState = ExpectedState)
    /\ srv' = "set_event"
    /\ UNCHANGED <<cur, curCode, curState, event, isShutDown, nreq, lastReply,
                   writes, firstCode>>
    /\ UNCHANGED <<pc, op, scopes, code, outcome, serverVars, tokenVars>>
    /\ UNCHANGED <<flow2Vars, dataVars>>

\* do_GET line 182: event.set()
do_GET_set_event ==
    /\ srv = "set_event"
    /\ event' = TRUE
    /\ srv' = "respond"
    /\ UNCHANGED <<cur, curCode, curState, result, isShutDown, nreq, lastReply,
                   writes, firstCode, capturedBad, capturedGood>>
    /\ UNCHANGED <<pc, op, scopes, code, outcome, serverVars, tokenVars>>
    /\ UNCHANGED <<flow2Vars, dataVars>>

\* do_GET line 184: `state != expected_state`
HandlerStateOk_any(s) == TRUE
HandlerStateOk(s) == s = ExpectedState

\* do_GET lines 184-192: 400 on a state mismatch, 200 otherwise
do_GET_respond ==
    /\ srv = "respond"
    /\ Reply(IF ~HandlerStateOk(curState) THEN 400 ELSE 200)
    /\ UNCHANGED <<result, event, isShutDown, nreq, writes, firstCode,
                   capturedBad, capturedGood>>
    /\ UNCHANGED <<pc, op, scopes, code, outcome, serverVars, tokenVars>>
    /\ UNCHANGED <<flow2Vars, dataVars>>

\* ============================ obtain_authorization_code_via_browser
\* lines 218-225: the redirect URI must carry a host and a port
obtain_parse_redirect(uri) ==
    /\ pc = "obtain"
    /\ IF uri = "noport"
         THEN Raise("ConfigError", "redirect uri")
         ELSE Goto("bind")
    /\ UNCHANGED <<op, scopes, code, listenVars, serverVars, tokenVars>>
    /\ UNCHANGED <<flow2Vars, dataVars>>

\* lines 133-135, 227: TCPServer.__init__ calls server_bind; bind() on an
\* address another socket listens on raises OSError (EADDRINUSE).  On POSIX
\* allow_reuse_address (SO_REUSEADDR) lifts only the TIME_WAIT of a closed
\* socket, never the claim of a listening one.
BindFails_reuse(inUse) == FALSE
BindFails(inUse) == inUse

\* line 227: OAuthRedirectServer(...) binds and listens; the bind fails when
\* another socket holds the port: one of another process (busy) or the one
\* of the other invocation
obtain_bind(busy) ==
    /\ pc = "bind"
    /\ IF BindFails(busy \/ sock2Open)
         THEN /\ Raise("OSError", "bind")
              /\ UNCHANGED <<sockOpen, everBound>>
         ELSE /\ Goto("start_thread")
              /\ sockOpen' = TRUE
              /\ everBound' = TRUE
    /\ UNCHANGED <<op, scopes, code, listenVars, shutdownReq, joined,
                   browserCalls, browserOk, waited, tokenVars>>
    /\ UNCHANGED <<flow2Vars, dataVars>>

\* lines 228-229: the serve thread starts running serve_forever
obtain_start_thread ==
    /\ pc = "start_thread"
    /\ srv' = "serving"
    /\ Goto("browser")
    /\ UNCHANGED <<cur, curCode, curState, result, event, isShutDown, nreq,
                   lastReply, writes, firstCode, capturedBad, capturedGood>>
    /\ UNCHANGED <<op, scopes, code, serverVars, tokenVars>>
    /\ UNCHANGED <<flow2Vars, dataVars>>

\* line 227: leaving the `with` block runs the server's __exit__, which is
\* server_close(): the listening socket is closed
server_close_noop == sockOpen' = sockOpen
server_close == sockOpen' = FALSE

\* line 231: webbrowser.open(auth_url) reports a browser it could not launch
\* by returning False, never by raising, and the statement drops the value:
\* no result of the call makes the flow raise
open_failure_raises_any(opened) == ~opened
open_failure_raises(opened) == FALSE

\* line 231: the call itself, inside the `with` of line 227
obtain_open_browser(opened) ==
    /\ pc = "browser"
    /\ opened \in BOOLEAN
    /\ browserCalls' = browserCalls + 1
    /\ browserOk' = IF opened THEN "opened" ELSE "failed"
    /\ IF open_failure_raises(opened)
         THEN Raise("OAuthError", "browser") /\ server_close
         ELSE Goto("wait") /\ sockOpen' = sockOpen
    /\ UNCHANGED <<op, scopes, code, listenVars, shutdownReq, joined,
                   everBound, waited, tokenVars>>
    /\ UNCHANGED <<flow2Vars, dataVars>>

\* line 232: event.wait(timeout) returns True, the flag is set
obtain_wait_signalled ==
    /\ pc = "wait"
    /\ event
    /\ waited' = "signal"
    /\ Goto("shutdown")
    /\ UNCHANGED <<op, scopes, code, listenVars, shutdownReq, sockOpen, joined,
                   everBound, browserCalls, browserOk, tokenVars>>
    /\ UNCHANGED <<flow2Vars, dataVars>>

\* line 232: event.wait(timeout) returns False, the timeout expired first
obtain_wait_timeout ==
    /\ pc = "wait"
    /\ ~event
    /\ waited' = "timeout"
    /\ Goto("shutdown")
    /\ UNCHANGED <<op, scopes, code, listenVars, shutdownReq, sockOpen, joined,
                   everBound, browserCalls, browserOk, tokenVars>>
    /\ UNCHANGED <<flow2Vars, dataVars>>

\* exceptions event.wait(timeout) of line 232 raises in the calling thread:
\* KeyboardInterrupt on SIGINT, OverflowError for a callback_timeout above
\* threading.TIMEOUT_MAX
WaitExceptions == {"KeyboardInterrupt", "OverflowError"}

\* line 232 inside the `with` of line 227: event.wait raises.  The with
\* statement closes the socket on the way out; nothing on this path calls
\* httpd.shutdown() or server_thread.join().  Event.wait looks at the timeout
\* only when the flag is clear, so OverflowError needs a clear flag; SIGINT
\* is delivered whatever the flag says.
obtain_wait_raises(exc) ==
    /\ pc = "wait"
    /\ exc = "OverflowError" => ~event
    /\ Raise(exc, "event.wait")
    /\ server_close
    /\ UNCHANGED <<op, scopes, code, listenVars, shutdownReq, joined, everBound,
                   browserCalls, browserOk, waited, tokenVars>>
    /\ UNCHANGED <<flow2Vars, dataVars>>

\* lines 233 / 237: httpd.shutdown() sets __shutdown_request ...
obtain_shutdown ==
    /\ pc = "shutdown"
    /\ shutdownReq' = TRUE
    /\ Goto("shutdown_wait")
    /\ UNCHANGED <<op, scopes, code, listenVars, sockOpen, joined, everBound,
                   browserCalls, browserOk, waited, tokenVars>>
    /\ UNCHANGED <<flow2Vars, dataVars>>

\* ... and blocks in __is_shut_down.wait() until serve_forever has left its loop
obtain_shutdown_returns ==
    /\ pc = "shutdown_wait"
    /\ isShutDown
    /\ Goto("join")
    /\ UNCHANGED <<op, scopes, code, listenVars, serverVars, tokenVars>>
    /\ UNCHANGED <<flow2Vars, dataVars>>

\* lines 234 / 238: server_thread.join() returns once the thread has ended
obtain_join ==
    /\ pc = "join"
    /\ srv = "exited"
    /\ joined' = TRUE
    /\ Goto("leave_with")
    /\ UNCHANGED <<op, scopes, code, listenVars, shutdownReq, sockOpen,
                   everBound, browserCalls, browserOk, waited, tokenVars>>
    /\ UNCHANGED <<flow2Vars, dataVars>>

\* line 235 / end of the with block: leaving the with statement closes the
\* socket; after a timeout the OAuthError raised on line 235 propagates
obtain_leave_with ==
    /\ pc = "leave_with"
    /\ server_close
    /\ IF waited = "timeout"
         THEN Raise("OAuthError", "Authorization timed out waiting for callback.")
         ELSE Goto("validate")
    /\ UNCHANGED <<op, scopes, code, listenVars, shutdownReq, joined, everBound,
                   browserCalls, browserOk, waited, tokenVars>>
    /\ UNCHANGED <<flow2Vars, dataVars>>

\* line 240: `result.state != expected_state`
StateValid(s) == s = ExpectedState

\* line 242: `not result.code`
CodePresent(c) == c # PyNone /\ c # ""

\* lines 240-245: the state check, the missing-code check, the return
obtain_validate ==
    /\ pc = "validate"
    /\ IF ~StateValid(result.state)
         THEN Raise("OAuthError", "State validation failed.") /\ code' = code
         ELSE IF ~CodePresent(result.code)
           THEN Raise("OAuthError", "Authorization code missing from callback.")
                /\ code' = code
           ELSE Goto("exchange") /\ code' = result.code
    /\ UNCHANGED <<op, scopes, listenVars, serverVars, tokenVars>>
    /\ UNCHANGED <<flow2Vars, dataVars>>

\* =========================================== get_authorization_tokens
CfgOutcomes == {"ok", "noconfig", "nocreds"}

\* lines 286, 300-306: the call, load_config() and load_credentials()
get_authorization_tokens_call(s, cfg) ==
    /\ pc = "idle"
    /\ op' = "auth"
    /\ scopes' = s
    /\ IF cfg = "ok" THEN Goto("scopes") ELSE Raise("ConfigError", cfg)
    /\ UNCHANGED <<code, listenVars, serverVars, tokenVars>>
    /\ UNCHANGED <<flow2Vars, dataVars>>

\* lines 308-317: default scopes, or every entry must be an allowed scope
get_authorization_tokens_scopes ==
    /\ pc = "scopes"
    /\ IF scopes = NoScopes
         THEN scopes' = DefaultScopes /\ Goto("obtain")
         ELSE IF FirstInvalid(Split(scopes)) # 0
           THEN Raise("OAuthError", "Invalid scope") /\ scopes' = scopes
           ELSE scopes' = Join(Split(scopes)) /\ Goto("obtain")
    /\ UNCHANGED <<op, code, listenVars, serverVars, tokenVars>>
    /\ UNCHANGED <<flow2Vars, dataVars>>

\* ===================================================== token exchange
\* requests.post / raise_for_status / r.json(): the exception they raise,
\* "" when the call yields a JSON value
TransportError_unchecked(r) ==
    CASE r.http = "timeout"  -> "Timeout"
      [] r.json = "invalid"  -> "JSONDecodeError"
      [] OTHER               -> ""
TransportError(r) ==
    CASE r.http = "timeout"  -> "Timeout"
      [] r.http = "error"    -> "HTTPError"
      [] r.json = "invalid"  -> "JSONDecodeError"
      [] OTHER               -> ""

\* parse_token_response lines 120-123 on a dict envelope: the exception
\* raised, "" when the four keys are read
ParseError(body) ==
    CASE body.kind # "dict"           -> "OAuthError"
      [] body.access_token = Absent   -> "KeyError"
      [] body.refresh_token = Absent  -> "KeyError"
      [] body.userid = Absent         -> "KeyError"
      [] body.expires_in = Absent     -> "KeyError"
      [] OTHER                        -> ""

\* parse_token_response line 123: the tuple returned
ParsedTokens(body) ==
    [access |-> body.access_token, refresh |-> body.refresh_token,
     userid |-> body.userid, expires |-> body.expires_in]

\* save_tokens lines 86-87: WITHINGS_ACCESS_TOKEN, WITHINGS_REFRESH_TOKEN
SaveTokens(access_token, refresh_token) ==
    [access |-> access_token, refresh |-> refresh_token]

\* lines 347 / 410: `expires_in // 3600` is defined on numbers only
FloorDivRaises(v) == v.k # "int"

\* the dict returned on lines 351-356 / 414-419
Returned(t) ==
    [kind |-> "returned", msg |-> "", wait |-> VNone, access |-> t.access,
     refresh |-> t.refresh, userid |-> t.userid, expires |-> t.expires,
     text |-> NoText]

\* f"{data}" on line 122, f"{response_json}" on lines 395 and 405: the repr
\* of the envelope spells out every value in it, the body's tokens included
EnvelopeText(r) ==
    [access_token |-> r.body.access_token, refresh_token |-> r.body.refresh_token]

\* parse_token_response lines 120-123 as it ends in an exception: OAuthError
\* with the envelope in its message (line 122), or the KeyError of line 123,
\* whose message is the missing key
ParseFailure(r) ==
    IF ParseError(r.body) = "OAuthError"
      THEN [Outcome("OAuthError", "Invalid token response") EXCEPT !.text = EnvelopeText(r)]
      ELSE Outcome(ParseError(r.body), "Invalid token response")

\* line 395: OAuthError(f"Invalid token response: {response_json}")
NotDictFailure(r) ==
    [Outcome("OAuthError", "Invalid token response (not dict)")
        EXCEPT !.text = EnvelopeText(r)]

\* line 405: OAuthError(f"Refresh failed with status {status}: {response_json}")
StatusFailure(r) ==
    [Outcome("OAuthError", "Refresh failed with status") EXCEPT !.text = EnvelopeText(r)]

\* exchange_code lines 272-283, called on line 336: one POST, then
\* raise_for_status, r.json() and parse_token_response
exchange_code(r) ==
    /\ pc = "exchange"
    /\ posts' = posts + 1
    /\ resp' = r
    /\ IF TransportError(r) # ""
         THEN Raise(TransportError(r), "token endpoint") /\ tokens' = tokens
         ELSE IF r.json # "dict"
           THEN Raise("AttributeError", "data.get") /\ tokens' = tokens
           ELSE IF ParseError(r.body) # ""
             THEN pc' = "done" /\ outcome' = ParseFailure(r) /\ tokens' = tokens
             ELSE Goto("save") /\ tokens' = ParsedTokens(r.body)
    /\ UNCHANGED <<op, scopes, code, store, store0, saves, listenVars, serverVars>>
    /\ UNCHANGED <<flow2Vars, dataVars>>

\* line 345: the arguments of save_tokens(access_token, refresh_token)
AuthSaveArgs_swapped(t) == <<t.refresh, t.access>>
AuthSaveArgs(t) == <<t.access, t.refresh>>

\* line 345: save_tokens(access_token, refresh_token)
get_authorization_tokens_save ==
    /\ pc = "save"
    /\ store' = SaveTokens(AuthSaveArgs(tokens)[1], AuthSaveArgs(tokens)[2])
    /\ saves' = Append(saves, AuthSaveArgs(tokens))
    /\ Goto("return")
    /\ UNCHANGED <<op, scopes, code, store0, resp, tokens, posts, listenVars, serverVars>>
    /\ UNCHANGED <<flow2Vars, dataVars>>

\* lines 346-356: the log lines and the returned dict
get_authorization_tokens_return ==
    /\ pc = "return"
    /\ pc' = "done"
    /\ outcome' = IF FloorDivRaises(tokens.expires)
                    THEN Outcome("TypeError", "expires_in // 3600")
                    ELSE Returned(tokens)
    /\ UNCHANGED <<op, scopes, code, listenVars, serverVars, tokenVars>>
    /\ UNCHANGED <<flow2Vars, dataVars>>

\* ======================================= refresh_authorization_tokens
\* lines 359, 373-389: load_config, load_credentials, load_refresh_token
refresh_authorization_tokens_call(cfg) ==
    /\ pc = "idle"
    /\ op' = "refresh"
    /\ IF cfg # "ok"
         THEN Raise("ConfigError", cfg)
         ELSE IF ~Truthy(store.refresh)
           THEN Raise("ConfigError", "Missing refresh token in .env")
           ELSE Goto("refresh_post")
    /\ UNCHANGED <<scopes, code, listenVars, serverVars, tokenVars>>
    /\ UNCHANGED <<flow2Vars, dataVars>>

\* line 399: `status != 0`
StatusOk(status) == status = VInt(0)

\* line 400: `status == 601`
IsRateLimit_nonzero(status) == TRUE
IsRateLimit(status) == status = VInt(601)

\* lines 401-403: wait_seconds of the body when the body is a dict
RateLimitWait_none(body) == VNone
RateLimitWait(body) ==
    IF body.kind = "dict" THEN Get(body.wait_seconds) ELSE VNone

\* TokenRateLimitError.__init__ lines 38-41
TokenRateLimitError(wait_seconds) ==
    [Outcome("TokenRateLimitError", "Token refresh rate limited.")
        EXCEPT !.wait = wait_seconds]

\* lines 391-393: an exception of requests.post, raise_for_status or r.json()
\* is not caught: it ends the call, the POST is not sent again
refresh_transport_failure_retry(kind) == Goto("refresh_post")
refresh_transport_failure(kind) == Raise(kind, "token endpoint")

\* lines 391-406: one POST, raise_for_status, r.json(), the status
\* classification and parse_token_response
refresh_authorization_tokens_post(r) ==
    /\ pc = "refresh_post"
    /\ posts' = posts + 1
    /\ resp' = r
    /\ IF TransportError(r) # ""
         THEN refresh_transport_failure(TransportError(r)) /\ tokens' = tokens
         ELSE IF r.json # "dict"
           THEN pc' = "done" /\ outcome' = NotDictFailure(r) /\ tokens' = tokens
           ELSE IF ~StatusOk(r.status)
             THEN /\ pc' = "done"
                  /\ outcome' = IF IsRateLimit(r.status)
                                  THEN TokenRateLimitError(RateLimitWait(r.body))
                                  ELSE StatusFailure(r)
                  /\ tokens' = tokens
             ELSE IF ParseError(r.body) # ""
               THEN pc' = "done" /\ outcome' = ParseFailure(r) /\ tokens' = tokens
               ELSE Goto("refresh_save") /\ tokens' = ParsedTokens(r.body)
    /\ UNCHANGED <<op, scopes, code, store, store0, saves, listenVars, serverVars>>
    /\ UNCHANGED <<flow2Vars, dataVars>>

\* line 408: the arguments of save_tokens(access_token, new_refresh_token)
RefreshSaveArgs(t) == <<t.access, t.refresh>>

\* line 408: save_tokens(access_token, new_refresh_token)
refresh_authorization_tokens_save ==
    /\ pc = "refresh_save"
    /\ store' = SaveTokens(RefreshSaveArgs(tokens)[1], RefreshSaveArgs(tokens)[2])
    /\ saves' = Append(saves, RefreshSaveArgs(tokens))
    /\ Goto("refresh_return")
    /\ UNCHANGED <<op, scopes, code, store0, resp, tokens, posts, listenVars, serverVars>>
    /\ UNCHANGED <<flow2Vars, dataVars>>

\* lines 409-419: the log lines and the returned dict
refresh_authorization_tokens_return ==
    /\ pc = "refresh_return"
    /\ pc' = "done"
    /\ outcome' = IF FloorDivRaises(tokens.expires)
                    THEN Outcome("TypeError", "expires_in // 3600")
                    ELSE Returned(tokens)
    /\ UNCHANGED <<op, scopes, code, listenVars, serverVars, tokenVars>>
    /\ UNCHANGED <<flow2Vars, dataVars>>

Next ==
    \/ \E s \in ScopeInputs, cfg \in CfgOutcomes : get_authorization_tokens_call(s, cfg)
    \/ get_authorization_tokens_scopes
    \/ \E uri \in {"ok", "noport"} : obtain_parse_redirect(uri)
    \/ \E busy \in BOOLEAN : obtain_bind(busy)
    \/ obtain_start_thread
    \/ \E opened \in BOOLEAN : obtain_open_browser(opened)
    \/ obtain_wait_signalled
    \/ obtain_wait_timeout
    \/ \E exc \in WaitExceptions : obtain_wait_raises(exc)
    \/ obtain_shutdown
    \/ obtain_shutdown_returns
    \/ obtain_join
    \/ obtain_leave_with
    \/ obtain_validate
    \/ \E r \in Requests : serve_accept(r)
    \/ serve_exit
    \/ do_GET_dispatch
    \/ do_GET_store_code
    \/ do_GET_store_state
    \/ do_GET_set_event
    \/ do_GET_respond
    \/ \E r \in Responses : exchange_code(r)
    \/ get_authorization_tokens_save
    \/ get_authorization_tokens_return
    \/ \E cfg \in CfgOutcomes : refresh_authorization_tokens_call(cfg)
    \/ \E r \in Responses : refresh_authorization_tokens_post(r)
    \/ refresh_authorization_tokens_save
    \/ refresh_authorization_tokens_return

Spec == Init /\ [][Next]_vars

\* ============================= two invocations on one redirect port
\* A second thread of the process runs the same flow with the same redirect
\* URI.  Its own locals (CallbackResult, Event, handler class) are not shared
\* with the first; what the two share is the port.
flow1Vars == <<pc, op, scopes, code, outcome, listenVars, serverVars, tokenVars>>

\* lines 197-225 of the second invocation: it reaches the bind of line 227
second_obtain_call ==
    /\ pc2 = "idle"
    /\ pc2' = "bind"
    /\ UNCHANGED <<outcome2, sock2Open, flow1Vars, dataVars>>

\* line 227 of the second invocation: OAuthRedirectServer(...) binds, or
\* raises OSError out of the flow when the first holds the port
second_obtain_bind ==
    /\ pc2 = "bind"
    /\ IF BindFails(sockOpen)
         THEN /\ pc2' = "done"
              /\ outcome2' = Outcome("OSError", "bind")
              /\ sock2Open' = sock2Open
         ELSE /\ pc2' = "listening"
              /\ outcome2' = outcome2
              /\ sock2Open' = TRUE
    /\ UNCHANGED <<flow1Vars, dataVars>>

\* lines 227-245 of the second invocation, when it was the one to bind: its
\* wait ends and the with statement closes its socket
second_obtain_leave_with ==
    /\ pc2 = "listening"
    /\ pc2' = "done"
    /\ outcome2' = Outcome("left", "")
    /\ sock2Open' = FALSE
    /\ UNCHANGED <<flow1Vars, dataVars>>

\* the callbacks and token endpoint answers the two-invocation runs draw from
TwoFlowRequests ==
    {[path |-> ExpectedPath, code |-> "c1", state |-> ExpectedState],
     [path |-> ExpectedPath, code |-> "c2", state |-> "S-bad"],
     [path |-> "/other", code |-> "c1", state |-> ExpectedState]}
TwoFlowResponses ==
    {Answer("ok", "dict", VInt(0), FullBody), Answer("error", "none", Absent, NoBody)}

\* the steps of the first invocation and of its serve thread
FirstFlowNext ==
    \/ get_authorization_tokens_call(NoScopes, "ok")
    \/ get_authorization_tokens_scopes
    \/ obtain_parse_redirect("ok")
    \/ obtain_bind(FALSE)
    \/ obtain_start_thread
    \/ \E opened \in BOOLEAN : obtain_open_browser(opened)
    \/ obtain_wait_signalled
    \/ obtain_wait_timeout
    \/ \E exc \in WaitExceptions : obtain_wait_raises(exc)
    \/ obtain_shutdown
    \/ obtain_shutdown_returns
    \/ obtain_join
    \/ obtain_leave_with
    \/ obtain_validate
    \/ \E r \in TwoFlowRequests : serve_accept(r)
    \/ serve_exit
    \/ do_GET_dispatch
    \/ do_GET_store_code
    \/ do_GET_store_state
    \/ do_GET_set_event
    \/ do_GET_respond
    \/ \E r \in TwoFlowResponses : exchange_code(r)
    \/ get_authorization_tokens_save
    \/ get_authorization_tokens_return

NextTwoFlows ==
    \/ FirstFlowNext
    \/ second_obtain_call
    \/ second_obtain_bind
    \/ second_obtain_leave_with

SpecTwoFlows == Init /\ [][NextTwoFlows]_vars

\* ======================================================== get_data.py
\* the variables of get_auth_code.py's listener and of the second invocation
authVars == <<op, scopes, code, listenVars, serverVars, flow2Vars>>

\* get_data.py line 35: get_access_token(refresh) called by itself
get_access_token_call(refresh) ==
    /\ gpc = "idle"
    /\ pc = "idle"
    /\ gop' = "get_access_token"
    /\ gargs' = Args(refresh, FALSE, FALSE, TRUE)
    /\ gpc' = "token"
    /\ UNCHANGED <<gtoken, gresp, gout, jsonFile, sqliteRows>>
    /\ UNCHANGED <<pc, outcome, authVars, tokenVars>>

\* the two fetch functions and the endpoint tag each stores with its rows
FetchFunctions == {"measurements", "activity"}
Endpoint(fn) == IF fn = "measurements" THEN "measure" ELSE "activity"

\* lines 130-142 / 162-173: the call and load_config(); a missing or
\* unreadable config file raises ConfigError out of the function
fetch_and_save_call(fn, args, cfg) ==
    /\ gpc = "idle"
    /\ pc = "idle"
    /\ fn \in FetchFunctions
    /\ gop' = fn
    /\ gargs' = args
    /\ IF cfg = "ok"
         THEN gpc' = "token" /\ gout' = gout
         ELSE gpc' = "done" /\ gout' = GOutcome("ConfigError", VNone, NoResp)
    /\ UNCHANGED <<gtoken, gresp, jsonFile, sqliteRows>>
    /\ UNCHANGED <<pc, outcome, authVars, tokenVars>>

\* lines 37-38 (called on lines 144 / 175): `if refresh:` calls
\* refresh_authorization_tokens() first
get_access_token_refresh ==
    /\ gpc = "token"
    /\ gpc' = IF gargs.refresh THEN "refreshing" ELSE "load"
    /\ UNCHANGED <<gop, gargs, gtoken, gresp, gout, jsonFile, sqliteRows>>
    /\ UNCHANGED <<pc, outcome, authVars, tokenVars>>

\* line 38: the call is in no try block: whatever
\* refresh_authorization_tokens raises leaves get_access_token too
RefreshRaised_swallowed(o) == FALSE
RefreshRaised(o) == o.kind # "returned"

\* line 38: refresh_authorization_tokens() has ended
get_access_token_refreshed ==
    /\ gpc = "refreshing"
    /\ pc = "done"
    /\ IF RefreshRaised(outcome)
         THEN gpc' = "done" /\ gout' = GOutcome(outcome.kind, VNone, NoResp)
         ELSE gpc' = "load" /\ gout' = gout
    /\ UNCHANGED <<gop, gargs, gtoken, gresp, jsonFile, sqliteRows>>
    /\ UNCHANGED <<pc, outcome, authVars, tokenVars>>

\* _load_access_token lines 25-32, and line 39: WITHINGS_ACCESS_TOKEN is read
\* from .env; unset or empty raises ConfigError.  get_access_token returns
\* it; a fetch function goes on to its request.
load_access_token ==
    /\ gpc = "load"
    /\ IF ~Truthy(store.access)
         THEN /\ gpc' = "done"
              /\ gout' = GOutcome("ConfigError", VNone, NoResp)
              /\ gtoken' = gtoken
         ELSE /\ gtoken' = store.access
              /\ IF gop = "get_access_token"
                   THEN gpc' = "done" /\ gout' = GOutcome("returned", store.access, NoResp)
                   ELSE gpc' = "get" /\ gout' = gout
    /\ UNCHANGED <<gop, gargs, gresp, jsonFile, sqliteRows>>
    /\ UNCHANGED <<pc, outcome, authVars, tokenVars>>

\* answers of the Withings API to requests.get: 2xx envelopes with status 0,
\* 401 or no status, a 2xx payload that is a list or not JSON, a non-2xx
\* answer, no answer in time
ApiResponses ==
    {Answer("ok", "dict", st, NoBody) : st \in {VInt(0), VInt(401), Absent}}
    \cup {Answer("ok", "list", Absent, NoBody), Answer("ok", "invalid", Absent, NoBody),
          Answer("error", "none", Absent, NoBody), Answer("timeout", "none", Absent, NoBody)}

\* _authorized_get line 47: `data.get('status') != 0`
ApiStatusOk_any(status) == TRUE
ApiStatusOk(status) == Get(status) = VInt(0)

\* _authorized_get lines 44-48: the exception raised for answer r, "" when
\* the envelope is returned
ApiError(r) ==
    IF TransportError(r) # "" THEN TransportError(r)
    ELSE IF r.json # "dict" THEN "AttributeError"
    ELSE IF ~ApiStatusOk(r.status) THEN "WithingsApiError"
    ELSE ""

\* get_measurements lines 67-77 / get_activity lines 88-97 with
\* _authorized_get lines 42-49: get_activity raises ValueError before any
\* request when it has neither lastupdate nor both dates; otherwise one GET
authorized_get(r) ==
    /\ gpc = "get"
    /\ IF gop = "activity" /\ ~gargs.dates
         THEN /\ gpc' = "done"
              /\ gout' = GOutcome("ValueError", VNone, NoResp)
              /\ gresp' = gresp
         ELSE /\ gresp' = r
              /\ IF ApiError(r) # ""
                   THEN gpc' = "done" /\ gout' = GOutcome(ApiError(r), VNone, NoResp)
                   ELSE gpc' = "save_json" /\ gout' = gout
    /\ UNCHANGED <<gop, gargs, gtoken, jsonFile, sqliteRows>>
    /\ UNCHANGED <<pc, outcome, authVars, tokenVars>>

\* lines 155-156 / 185-186: `if save_path: save_json(data, save_path)`
fetch_save_json ==
    /\ gpc = "save_json"
    /\ jsonFile' = IF gargs.save_path THEN gresp ELSE jsonFile
    /\ gpc' = "save_sqlite"
    /\ UNCHANGED <<gop, gargs, gtoken, gresp, gout, sqliteRows>>
    /\ UNCHANGED <<pc, outcome, authVars, tokenVars>>

\* lines 157-159 / 187-189: `if sqlite_db: save_raw_to_sqlite(...)`, then
\* `return data`
fetch_save_sqlite ==
    /\ gpc = "save_sqlite"
    /\ sqliteRows' = IF gargs.sqlite_db
                        THEN Append(sqliteRows, <<Endpoint(gop), gresp>>)
                        ELSE sqliteRows
    /\ gpc' = "done"
    /\ gout' = GOutcome("returned", VNone, gresp)
    /\ UNCHANGED <<gop, gargs, gtoken, gresp, jsonFile>>
    /\ UNCHANGED <<pc, outcome, authVars, tokenVars>>

\* the argument combinations the fetch functions are called with
FetchArgs ==
    {Args(refresh, save_path, sqlite_db, dates) :
        refresh \in BOOLEAN, save_path \in BOOLEAN, sqlite_db \in BOOLEAN,
        dates \in BOOLEAN}

\* a call of get_data.py; refresh_authorization_tokens runs when, and only
\* when, get_access_token has called it
NextData ==
    \/ \E refresh \in BOOLEAN : get_access_token_call(refresh)
    \/ \E fn \in FetchFunctions, args \in FetchArgs, cfg \in {"ok", "noconfig"} :
          fetch_and_save_call(fn, args, cfg)
    \/ get_access_token_refresh
    \/ gpc = "refreshing" /\ \E cfg \in CfgOutcomes : refresh_authorization_tokens_call(cfg)
    \/ \E r \in Responses : refresh_authorization_tokens_post(r)
    \/ refresh_authorization_tokens_save
    \/ refresh_authorization_tokens_return
    \/ get_access_token_refreshed
    \/ load_access_token
    \/ \E r \in ApiResponses : authorized_get(r)
    \/ fetch_save_json
    \/ fetch_save_sqlite

SpecData == Init /\ [][NextData]_vars

\* ==================================== a connection that sends nothing
\* lines 133-135, 158: OAuthRedirectServer is a plain TCPServer, so the
\* handler runs on the serve_forever thread itself, and the handler class
\* sets no `timeout`: BaseHTTPRequestHandler.handle blocks in
\* rfile.readline() until the peer sends a request line or closes.
\* serve_forever accepts a connection whose peer has sent nothing yet.
handle_blocks ==
    /\ srv = "serving"
    /\ ~shutdownReq
    /\ sockOpen
    /\ nreq < MaxReqs
    /\ srv' = "stalled"
    /\ nreq' = nreq + 1
    /\ UNCHANGED <<cur, curCode, curState, result, event, isShutDown, lastReply,
                   writes, firstCode, capturedBad, capturedGood>>
    /\ UNCHANGED <<pc, op, scopes, code, outcome, serverVars, tokenVars, flow2Vars, dataVars>>

\* the peer of the stalled connection acts at last: it closes (readline
\* returns b"", the handler returns without a reply and serve_forever loops)
\* or it sends request r, which do_GET handles
handle_unblocks(r) ==
    /\ srv = "stalled"
    /\ IF r = NoReq
         THEN srv' = "serving" /\ cur' = cur
         ELSE srv' = "do_GET" /\ cur' = r
    /\ UNCHANGED <<curCode, curState, result, event, isShutDown, nreq, lastReply,
                   writes, firstCode, capturedBad, capturedGood>>
    /\ UNCHANGED <<pc, op, scopes, code, outcome, serverVars, tokenVars, flow2Vars, dataVars>>

\* the steps the calling thread takes by itself once it can: every step of
\* the flow but an exception breaking into event.wait
CallerStep ==
    \/ get_authorization_tokens_call(NoScopes, "ok")
    \/ get_authorization_tokens_scopes
    \/ obtain_parse_redirect("ok")
    \/ obtain_bind(FALSE)
    \/ obtain_start_thread
    \/ \E opened \in BOOLEAN : obtain_open_browser(opened)
    \/ obtain_wait_signalled
    \/ obtain_wait_timeout
    \/ obtain_shutdown
    \/ obtain_shutdown_returns
    \/ obtain_join
    \/ obtain_leave_with
    \/ obtain_validate
    \/ \E r \in TwoFlowResponses : exchange_code(r)
    \/ get_authorization_tokens_save
    \/ get_authorization_tokens_return

\* the steps the serve thread takes by itself: the handler's statements and
\* the exit of serve_forever; what a peer sends or withholds is not among them
ServeStep ==
    \/ serve_exit
    \/ do_GET_dispatch
    \/ do_GET_store_code
    \/ do_GET_store_state
    \/ do_GET_set_event
    \/ do_GET_respond

NextStall ==
    \/ FirstFlowNext
    \/ handle_blocks
    \/ \E r \in TwoFlowRequests \cup {NoReq} : handle_unblocks(r)

\* both threads are scheduled: a thread that can take a step takes one
SpecStall ==
    Init /\ [][NextStall]_vars /\ WF_vars(CallerStep) /\ WF_vars(ServeStep)

\* ============================================================== claims
\* control is back with the caller of obtain_authorization_code_via_browser
\* after the listener had been bound
ObtainLeft == everBound /\ pc \in {"exchange", "save", "return", "done"}

TimedOut == Outcome("OAuthError", "Authorization timed out waiting for callback.")

\* the 2xx answer is an envelope with status 0 and a full body: the four
\* keys, expires_in a number
FullAnswer(r) ==
    /\ r.http = "ok" /\ r.json = "dict" /\ r.status = VInt(0)
    /\ r.body.kind = "dict"
    /\ r.body.access_token # Absent /\ r.body.refresh_token # Absent
    /\ r.body.userid # Absent /\ r.body.expires_in.k = "int"

\* the refresh POST was answered 2xx with a JSON object
RefreshAnswered == op = "refresh" /\ posts = 1 /\ resp.http = "ok" /\ resp.json = "dict"

\* C1: once do_GET has recorded a code-bearing request whose state is not the
\* state generated for the flow, the token endpoint is never contacted,
\* save_tokens is never called, and the flow (unless event.wait itself
\* raised) ends with OAuthError.
C1_MismatchFailsFlow ==
    capturedBad =>
        /\ posts = 0
        /\ saves = <<>>
        /\ (pc = "done" /\ outcome.kind \notin WaitExceptions
              => outcome.kind = "OAuthError")

\* C2: result.code is assigned at most once, and the code and state the flow
\* reads on lines 240-245 are those of the first code-bearing request on the
\* expected path.
C2_FirstCodeWins ==
    /\ writes <= 1
    /\ pc = "validate" =>
          result = [code |-> ParseQs(firstCode.code),
                    state |-> ParseQs(firstCode.state)]

\* C3: whenever obtain_authorization_code_via_browser has returned or raised
\* after binding the listener, the serve thread has ended and been joined and
\* the listening socket is closed.
C3_NoLiveListenerAfterReturn ==
    ObtainLeft => srv = "exited" /\ joined /\ ~sockOpen

\* C4: when the wait of line 232 times out (no code-bearing request on the
\* expected path was recorded in time), the flow ends with the timeout
\* OAuthError, and by then the listening socket is closed, so the port can be
\* bound again.
C4_TimeoutRaisesAndFreesPort ==
    (/\ pc = "done" /\ everBound /\ outcome.kind \notin WaitExceptions
     /\ (waited = "timeout" \/ writes = 0))
        => outcome = TimedOut /\ ~sockOpen

C4_Witness ==
    /\ pc = "done" /\ waited = "timeout" /\ outcome = TimedOut
    /\ nreq >= 1 /\ writes = 0 /\ ~sockOpen

\* C5: with a callback carrying a code and the generated state, and the token
\* endpoint answering 2xx, status 0, full body, get_authorization_tokens
\* returns the endpoint's access_token and refresh_token; save_tokens is called
\* exactly once, with those two values, and only after the exchange succeeded.
C5_SuccessSavesOnce ==
    /\ (op = "auth" /\ capturedGood /\ FullAnswer(resp)) =>
          /\ Len(saves) <= 1
          /\ saves # <<>> =>
                /\ saves[1] = <<resp.body.access_token, resp.body.refresh_token>>
                /\ store = [access |-> resp.body.access_token,
                            refresh |-> resp.body.refresh_token]
          /\ pc = "done" =>
                /\ outcome.kind = "returned"
                /\ outcome.access = resp.body.access_token
                /\ outcome.refresh = resp.body.refresh_token
                /\ Len(saves) = 1
    /\ (op = "auth" /\ saves # <<>>) =>
          posts = 1 /\ resp.http = "ok" /\ resp.json = "dict" /\ resp.body.kind = "dict"

C5_Witness ==
    /\ op = "auth" /\ pc = "done" /\ capturedGood /\ FullAnswer(resp)
    /\ outcome.kind = "returned" /\ outcome.access = VStr("A1")
    /\ saves = << <<VStr("A1"), VStr("R1")>> >>

\* C6: a refresh answered with status 601 ends with TokenRateLimitError whose
\* wait_seconds is body.wait_seconds (None when the body has none), without
\* calling save_tokens: the stored tokens are as they were.
C6_RateLimitKeepsTokens ==
    (RefreshAnswered /\ resp.status = VInt(601)) =>
        /\ pc = "done"
        /\ outcome.kind = "TokenRateLimitError"
        /\ outcome.wait = (IF resp.body.kind = "dict" /\ resp.body.wait_seconds # Absent
                             THEN resp.body.wait_seconds ELSE VNone)
        /\ saves = <<>>
        /\ store = store0

C6_Witness ==
    /\ RefreshAnswered /\ resp.status = VInt(601) /\ resp.body = WaitBody
    /\ outcome.kind = "TokenRateLimitError" /\ outcome.wait = VInt(30)
    /\ store = [access |-> VStr("A0"), refresh |-> VStr("R0")]

\* C7: a refresh answered with any status other than 0 and 601 (a missing
\* status included) ends with OAuthError, not TokenRateLimitError, and the
\* stored tokens are as they were.
C7_ErrorStatusKeepsTokens ==
    (RefreshAnswered /\ resp.status # VInt(0) /\ resp.status # VInt(601)) =>
        /\ pc = "done"
        /\ outcome.kind = "OAuthError"
        /\ saves = <<>>
        /\ store = store0

C7_Witness ==
    /\ RefreshAnswered /\ resp.status = VInt(503) /\ resp.body = FullBody
    /\ outcome.kind = "OAuthError"
    /\ store = [access |-> VStr("A0"), refresh |-> VStr("R0")]

\* the caller passed a scope string with an entry that is not an allowed scope
InvalidScopesPassed ==
    /\ op = "auth"
    /\ scopes # NoScopes
    /\ \E i \in 1..Len(Split(scopes)) : Split(scopes)[i] \notin AllowedScopes

\* C8: when the caller passes a scope string with an entry outside
\* allowed_scopes, no listener is ever bound, no browser opened and the token
\* endpoint is not contacted; once the configuration and credentials have
\* loaded, the call fails with OAuthError.
C8_InvalidScopeFailsEarly ==
    InvalidScopesPassed =>
        /\ ~everBound /\ srv = "none" /\ browserCalls = 0 /\ posts = 0
        /\ pc \in {"scopes", "done"}
        /\ (pc = "done" /\ outcome.kind # "ConfigError"
              => outcome = Outcome("OAuthError", "Invalid scope"))

C8_Witness ==
    /\ op = "auth" /\ scopes = <<"i", ",", "x">> /\ pc = "done"
    /\ outcome = Outcome("OAuthError", "Invalid scope")

\* C9: while do_GET handles a request whose path is not the expected path, no
\* step changes the CallbackResult or sets the event, whatever code and state
\* the request carries.
C9_WrongPathLeavesResult ==
    [][(srv = "do_GET" /\ cur.path # ExpectedPath)
          => (result' = result /\ event' = event /\ srv' \in {"do_GET", "serving"})]_vars

C9_Witness ==
    /\ lastReply = [req |-> [path |-> "/other", code |-> "c1", state |-> ExpectedState],
                    status |-> 404]
    /\ srv = "serving" /\ ~event /\ result = [code |-> PyNone, state |-> PyNone]

\* C10: while do_GET handles a request on the expected path with no code
\* parameter, or an empty one, no step changes the CallbackResult or sets the
\* event, even when the request carries the expected state.
C10_NoCodeLeavesResult ==
    [][(srv = "do_GET" /\ cur.path = ExpectedPath /\ cur.code \in {NoParam, ""})
          => (result' = result /\ event' = event /\ srv' \in {"do_GET", "serving"})]_vars

C10_Witness ==
    /\ lastReply = [req |-> [path |-> ExpectedPath, code |-> "", state |-> ExpectedState],
                    status |-> 400]
    /\ srv = "serving" /\ ~event /\ result = [code |-> PyNone, state |-> PyNone]


\* the token endpoint answered 2xx with a JSON object whose body is an object,
\* and the flow went on to parse_token_response (the refresh path parses only
\* an envelope with status 0)
ParsedAnswer ==
    /\ posts = 1 /\ resp.http = "ok" /\ resp.json = "dict" /\ resp.body.kind = "dict"
    /\ op = "refresh" => resp.status = VInt(0)

\* C11: the status do_GET answers with depends on the request alone: 404 for a
\* path other than the expected one, else 400 without a code, else 400 when
\* the echoed state is not the expected state, else 200.
C11_ReplyStatusByRequest ==
    lastReply.req # NoReq =>
        lastReply.status =
            (IF lastReply.req.path # ExpectedPath THEN 404
             ELSE IF lastReply.req.code \in {NoParam, ""} THEN 400
             ELSE IF lastReply.req.state # ExpectedState THEN 400
             ELSE 200)

C11_Witness ==
    /\ lastReply = [req |-> [path |-> ExpectedPath, code |-> "c2", state |-> "S-bad"],
                    status |-> 400]
    /\ nreq = 2 /\ event

\* C12: an envelope whose body object lacks access_token or refresh_token makes
\* the flow (authorization-code or refresh) end with OAuthError, and no token
\* is saved.
C12_MissingTokenIsOAuthError ==
    (/\ ParsedAnswer /\ pc = "done"
     /\ (resp.body.access_token = Absent \/ resp.body.refresh_token = Absent))
        => outcome.kind = "OAuthError" /\ saves = <<>>

\* C13: a body with access_token and refresh_token but no userid is parsed
\* with a null user id; the tokens are saved and returned.
C13_MissingUseridStillSaves ==
    (/\ ParsedAnswer /\ pc = "done"
     /\ resp.body.access_token # Absent /\ resp.body.refresh_token # Absent
     /\ resp.body.userid = Absent /\ resp.body.expires_in.k = "int")
        => /\ outcome.kind = "returned"
           /\ outcome.userid = VNone
           /\ saves = << <<resp.body.access_token, resp.body.refresh_token>> >>

\* C14: a body whose expires_in is missing or not a number is parsed with
\* expires_in = 10800 and the flow does not fail on it.
C14_ExpiresDefaults ==
    (/\ ParsedAnswer
     /\ resp.body.access_token # Absent /\ resp.body.refresh_token # Absent
     /\ resp.body.userid # Absent /\ resp.body.expires_in.k # "int")
        => /\ tokens.expires = VInt(10800)
           /\ pc = "done" => outcome.kind = "returned"

\* C15: when the POST to the token endpoint times out, exchange_code and
\* refresh_authorization_tokens end with OAuthError, the error kind of the
\* callback-wait timeout.
C15_HttpTimeoutIsOAuthError ==
    (posts = 1 /\ resp.http = "timeout")
        => pc = "done" /\ outcome.kind = "OAuthError"

C17_AtMostOnePost == posts <= 1

C17_Witness ==
    /\ op = "refresh" /\ pc = "done" /\ posts = 1 /\ resp.http = "timeout"
    /\ outcome.kind = "Timeout"


\* C19: a browser that could not be opened (webbrowser.open returned False)
\* is never surfaced: every ending of the flow after it comes after
\* event.wait has returned (or raised), and when the wait was signalled and
\* the callback passes the checks the flow returns the code the callback left.
C19_BrowserFailureNotSurfaced ==
    browserOk = "failed" =>
        /\ (pc = "done" /\ outcome.kind \notin WaitExceptions) => waited # "no"
        /\ pc \in {"exchange", "save", "return"} =>
              waited = "signal" /\ code = result.code /\ CodePresent(code)

C19_Witness ==
    /\ browserOk = "failed" /\ waited = "signal" /\ pc = "exchange"
    /\ code = "c1" /\ result.code = "c1" /\ lastReply.status = 200
\* ------------------------------------------------ what is surfaced
\* streamlit_app.py lines 40-47, get_auth_code.py lines 431-435: the caller
\* renders str(exc) of whatever the entry point raised, "Access token
\* refreshed." (no token value) when it returned
Surfaced(o) == IF o.kind = "returned" THEN NoText ELSE o.text

\* C20: no access_token or refresh_token value received from the token
\* endpoint is spelled out in full in what the call surfaces (the message of
\* the exception it raises, which the UI renders), on any path.
C20_TokensNeverSurfaced ==
    pc = "done" =>
        /\ Surfaced(outcome).access_token = Absent
        /\ Surfaced(outcome).refresh_token = Absent
\* what C18 asks of every step of two invocations sharing the port
C18_Step ==
    /\ (pc2 = "bind" /\ pc2' # pc2 /\ sockOpen) =>
          pc2' = "done" /\ outcome2'.kind = "OSError" /\ ~sock2Open'
    /\ (pc = "bind" /\ pc' # pc /\ sock2Open) =>
          pc' = "done" /\ outcome'.kind = "OSError" /\ ~sockOpen' /\ srv' = "none"
    /\ pc2' # pc2 => UNCHANGED flow1Vars

\* C18: of two invocations using the same redirect port at the same time,
\* the one that binds while the other holds the port fails at the bind with
\* OSError and never listens; the bind never blocks and the invocation that
\* holds the port always has a step to take (no deadlock); the steps of the
\* failing invocation leave the other's listener, result and tokens as they
\* were.
C18_SecondFlowFailsAtBind ==
    /\ [](~(sockOpen /\ sock2Open))
    /\ [](pc2 = "bind" => ENABLED second_obtain_bind)
    /\ [](pc \notin {"idle", "done"} => ENABLED FirstFlowNext)
    /\ [][C18_Step]_vars

C18_Witness ==
    /\ pc2 = "done" /\ outcome2.kind = "OSError" /\ ~sock2Open
    /\ pc = "done" /\ outcome.kind = "returned" /\ code = "c1"
    /\ saves = << <<VStr("A1"), VStr("R1")>> >>
\* C21: obtain_authorization_code_via_browser always terminates: once the
\* callback timeout has expired, whatever inbound connection is in flight,
\* the shutdown and the join complete and the flow raises the OAuthError of
\* the timeout.
C21_TimeoutAlwaysEnds ==
    (pc = "shutdown" /\ waited = "timeout") ~> (pc = "done" /\ outcome = TimedOut)
\* the CallbackResult the request being handled is to leave
WrittenBy(req) == [code |-> ParseQs(req.code), state |-> ParseQs(req.state)]

\* C22: the flow reads the shared CallbackResult only after every listener
\* write to it has completed: when a handler is about to set the signal, and
\* right after it has, result holds both the code and the state of the
\* request it handles; the flow reaches its reads (lines 240-245) only after
\* the signal fired, the serve thread exited and was joined; and result does
\* not change while the flow is at its reads.
C22_ReadAfterWrites ==
    /\ [](srv = "set_event" => result = WrittenBy(cur))
    /\ [](srv = "respond" => event /\ result = WrittenBy(cur))
    /\ [](pc = "validate" =>
            waited = "signal" /\ event /\ srv = "exited" /\ joined)
    /\ [][pc = "validate" => result' = result]_vars

C22_Witness ==
    /\ pc = "validate" /\ writes = 2 /\ srv = "exited" /\ joined
    /\ result = [code |-> "c2", state |-> ExpectedState]
    /\ firstCode = [path |-> ExpectedPath, code |-> "c1", state |-> "S-bad"]
\* the failure of line 243
CodeMissing == Outcome("OAuthError", "Authorization code missing from callback.")

\* C23: whenever the signal is set, and so whenever the wait of line 232 has
\* completed by signal, the recorded code is non-empty; the flow never ends
\* with "Authorization code missing from callback.".
C23_SignalMeansCode ==
    /\ event => CodePresent(result.code)
    /\ waited = "signal" => CodePresent(result.code)
    /\ outcome # CodeMissing

C23_Witness ==
    /\ waited = "signal" /\ pc = "done" /\ writes = 1 /\ nreq = 2
    /\ outcome = Outcome("OAuthError", "State validation failed.")
    /\ result = [code |-> "c1", state |-> PyNone]
\* C24: when obtain_authorization_code_via_browser has returned or raised,
\* no handler that has set the completion signal still has its response to
\* write: the 200 or 400 of the request that set the signal is out.
C24_ResponseBeforeReturn ==
    ObtainLeft => srv # "respond"
\* C25: get_access_token(refresh=True) refreshes before it reads the store:
\* a token is read from .env only after refresh_authorization_tokens has
\* returned, and it is the access token that call saved; when the refresh
\* returned, get_access_token returns exactly that token; when the refresh
\* raised (TokenRateLimitError included), get_access_token ends with the same
\* exception, having read and returned no token.  (The endpoint's tokens are
\* non-empty strings; there is no other writer of .env.)
C25_RefreshThenRead ==
    /\ (gargs.refresh /\ gtoken # VNone) =>
          /\ pc = "done" /\ outcome.kind = "returned"
          /\ saves = << <<gtoken, outcome.refresh>> >>
          /\ gtoken = resp.body.access_token
    /\ (gop = "get_access_token" /\ gargs.refresh /\ gpc = "done") =>
          IF outcome.kind = "returned"
            THEN gout = GOutcome("returned", outcome.access, NoResp)
            ELSE gout = GOutcome(outcome.kind, VNone, NoResp) /\ gtoken = VNone

C25_Witness ==
    /\ gop = "get_access_token" /\ gargs.refresh /\ gpc = "done"
    /\ store0.access = VStr("A0") /\ saves = << <<VStr("A1"), VStr("R1")>> >>
    /\ gout = GOutcome("returned", VStr("A1"), NoResp)

\* the API answered with a 2xx envelope whose status is 0
ApiAnsweredOk ==
    gresp.http = "ok" /\ gresp.json = "dict" /\ gresp.status = VInt(0)

\* C26: fetch_and_save_measurements and fetch_and_save_activity write the
\* JSON file or a withings_raw row only after the API call returned an
\* envelope with status 0, and what they write is that envelope; when the
\* function ends with an exception (of the config, the token refresh, the
\* token read, the HTTP call or the status check) nothing has been written.
C26_PersistOnlyAfterStatusOk ==
    /\ (jsonFile # NoResp \/ sqliteRows # <<>>) =>
          /\ gop \in FetchFunctions /\ ApiAnsweredOk
          /\ gpc \in {"save_sqlite", "done"}
          /\ jsonFile \in {NoResp, gresp}
          /\ sqliteRows \in {<<>>, << <<Endpoint(gop), gresp>> >>}
    /\ (gpc = "done" /\ gout.kind # "returned") =>
          jsonFile = NoResp /\ sqliteRows = <<>>

C26_Witness ==
    /\ gop = "activity" /\ gpc = "done" /\ gargs = Args(TRUE, TRUE, TRUE, TRUE)
    /\ outcome.kind = "returned" /\ ApiAnsweredOk
    /\ gout = GOutcome("returned", VNone, gresp)
    /\ jsonFile = gresp /\ sqliteRows = << <<"activity", gresp>> >>
====
